---- MODULE Spec2Model ----
(***************************************************************************)
(* termview: the viewer state machine (App), the viewport crop             *)
(* (App::get_view_image), the Kitty graphics renderer (kitty_display), the *)
(* status bar (draw_status_bar), the frame (draw) and the event loop and   *)
(* cleanup of main, of src/src/main.rs.                                    *)
(*                                                                         *)
(* f64 values are modelled as exact rationals <<n, d>> with d > 0, kept in *)
(* lowest terms.  Every zoom reachable from App::new by zoom_in alone is   *)
(* 5^k/4^k with k <= 10, which f64 holds exactly; elsewhere the model      *)
(* computes the exact quotient where f64 would round to nearest.           *)
(* u32/u16/usize values are integers; their upper saturation is never      *)
(* reached by the values of the model.                                     *)
(***************************************************************************)
EXTENDS Integers, Sequences, FiniteSets, TLC

VARIABLES
    images,         \* App.images: Vec<PathBuf>, a sequence of path ids
    index,          \* App.index: usize, 0-based
    current_image,  \* App.current_image: Option<DynamicImage>, <<>> or <<[w, h]>>
    error_message,  \* App.error_message: Option<String>, <<>> or <<msg>>
    show_help,      \* App.show_help
    zoom,           \* App.zoom: f64 as a rational
    pan_x,          \* App.pan_x: f64 as a rational
    pan_y,          \* App.pan_y: f64 as a rational
    panicked,       \* the process has panicked (an out-of-range index, a bad slice)
    hist,           \* history: the last operation and the fields it started from
    view,           \* the result of the last get_view_image call, <<>> before it
    kin,            \* kitty_display: its arguments
    kst,            \* kitty_display: its locals and loop position
    out,            \* kitty_display: the control commands written so far
    bar,            \* draw_status_bar: its arguments and what it wrote
    loop,           \* main: its position in the event loop, the event in hand, counters
    frame           \* what main and draw wrote to the terminal since the last event

vars == <<images, index, current_image, error_message, show_help, zoom, pan_x, pan_y,
          panicked, hist, view, kin, kst, out, bar, loop, frame>>

----------------------------------------------------------------------------
(* Bounds of the model *)

MaxImages == 2

MaxPanSteps == 1

MaxMag == 10000000

MaxDim == 5

MaxKDim == 4

MaxCols == 3

MaxRows == 3

MaxCell == 2

MaxStr == 3

MaxBarCols == 4

MaxZoomRun == 20

MaxEvents == 3

MaxPanRun == 12

----------------------------------------------------------------------------
(* Rational arithmetic standing for f64 *)

Abs(n) == IF n < 0 THEN -n ELSE n

Min(a, b) == IF a < b THEN a ELSE b

Max(a, b) == IF a > b THEN a ELSE b

RECURSIVE GCD(_, _)
GCD(a, b) == IF b = 0 THEN a ELSE GCD(b, a % b)

Norm(q) ==
    LET g == GCD(Abs(q[1]), q[2])
    IN  <<q[1] \div g, q[2] \div g>>

QInt(n) == <<n, 1>>

QAdd(a, b) == Norm(<<a[1] * b[2] + b[1] * a[2], a[2] * b[2]>>)

QSub(a, b) == Norm(<<a[1] * b[2] - b[1] * a[2], a[2] * b[2]>>)

QMul(a, b) == Norm(<<a[1] * b[1], a[2] * b[2]>>)

\* b > 0 in every use
QDiv(a, b) == Norm(<<a[1] * b[2], a[2] * b[1]>>)

QLt(a, b) == a[1] * b[2] < b[1] * a[2]

QLe(a, b) == a[1] * b[2] <= b[1] * a[2]

QAbs(a) == <<Abs(a[1]), a[2]>>

\* f64::min, f64::max
QMin(a, b) == IF QLt(b, a) THEN b ELSE a

QMax(a, b) == IF QLt(a, b) THEN b ELSE a

\* f64::clamp(lo, hi)
QClamp(a, lo, hi) == QMin(QMax(a, lo), hi)

\* `f as u32`: truncation toward zero, negative values saturate to 0
AsU32(q) == IF q[1] <= 0 THEN 0 ELSE q[1] \div q[2]

----------------------------------------------------------------------------
(* Program constants *)

ZoomOne == <<1, 1>>

ZoomStep == <<5, 4>>

ZoomMax == <<10, 1>>

ZoomMin == <<1, 10>>

PanZero == <<0, 1>>

PanStep == <<1, 20>>

Epsilon == <<1, 100>>

NoImagesMsg == "No images found in directory"

\* format!("Failed to load {}: {}", path.display(), e)
FailedMsg(path) == <<"Failed to load", path>>

\* The decoded images image::open can return
ImageDims == {[w |-> 1, h |-> 1], [w |-> 4, h |-> 3]}

\* image::open(path): Ok(img) or Err(e); the file is outside the program
DecodeResults == {<<d>> : d \in ImageDims} \cup {<<>>}

----------------------------------------------------------------------------
(* App *)

\* what the history keeps of an operation: its name and the viewport and index before it
H(op) == [op |-> op, index |-> index, zoom |-> zoom, pan_x |-> pan_x, pan_y |-> pan_y,
          failed |-> error_message # <<>>]

\* the load without self.error_message = None: a decoded image leaves the old error
load_image_keeps_error(idx) ==
    IF images = <<>>
    THEN /\ current_image' = <<>>
         /\ error_message' = <<NoImagesMsg>>
         /\ UNCHANGED panicked
    ELSE IF idx >= Len(images)
    THEN /\ panicked' = TRUE
         /\ UNCHANGED <<current_image, error_message>>
    ELSE /\ UNCHANGED panicked
         /\ \E r \in DecodeResults :
              IF r # <<>>
              THEN current_image' = r /\ UNCHANGED error_message
              ELSE current_image' = <<>> /\ error_message' = <<FailedMsg(images[idx + 1])>>

\* image::open(path) and the match on its result (load_current, after the reset).
\* &self.images[idx] panics when idx is out of range.
load_image(idx) ==
    IF images = <<>>
    THEN /\ current_image' = <<>>
         /\ error_message' = <<NoImagesMsg>>
         /\ UNCHANGED panicked
    ELSE IF idx >= Len(images)
    THEN /\ panicked' = TRUE
         /\ UNCHANGED current_image
         /\ error_message' = <<>>
    ELSE /\ UNCHANGED panicked
         /\ \E r \in DecodeResults :
              IF r # <<>>
              THEN current_image' = r /\ error_message' = <<>>
              ELSE current_image' = <<>> /\ error_message' = <<FailedMsg(images[idx + 1])>>

\* load_current without the reset of zoom and pan
load_current_keeps_viewport(idx) ==
    /\ UNCHANGED <<zoom, pan_x, pan_y>>
    /\ load_image(idx)

\* App::load_current, run after index has its new value idx
load_current(idx) ==
    /\ zoom' = ZoomOne
    /\ pan_x' = PanZero
    /\ pan_y' = PanZero
    /\ load_image(idx)

\* next without the modulo
next_index_no_wrap(i, n) == i + 1

next_index(i, n) == (i + 1) % n

\* prev saturating at 0 instead of wrapping
prev_index_saturating(i, n) == IF i = 0 THEN 0 ELSE i - 1

prev_index(i, n) == IF i = 0 THEN n - 1 ELSE i - 1

last_index(n) == n - 1

\* next / prev / first / last: if !self.images.is_empty() { self.index = idx; self.load_current() }
Navigate(op, idx) ==
    /\ ~panicked
    /\ hist' = H(op)
    /\ IF images # <<>>
       THEN /\ index' = idx
            /\ load_current(idx)
       ELSE UNCHANGED <<index, current_image, error_message, zoom, pan_x, pan_y, panicked>>
    /\ UNCHANGED <<images, show_help, view, kin, kst, out, bar>>

next == Navigate("next", next_index(index, Len(images)))

prev == Navigate("prev", prev_index(index, Len(images)))

\* first without the emptiness test
first_unguarded ==
    /\ ~panicked
    /\ hist' = H("first")
    /\ index' = 0
    /\ load_current(0)
    /\ UNCHANGED <<images, show_help, view, kin, kst, out, bar>>

first == Navigate("first", 0)

last == Navigate("last", last_index(Len(images)))

\* Strings are sequences of chars; a char is a string, the char itself when it is
\* ASCII and its name otherwise ("e-acute", two bytes in UTF-8).
DigitChars == <<"0", "1", "2", "3", "4", "5", "6", "7", "8", "9">>

\* format!("{}", n) of an unsigned integer
RECURSIVE Dec(_)
Dec(n) == IF n < 10 THEN <<DigitChars[n + 1]>>
          ELSE Dec(n \div 10) \o <<DigitChars[(n % 10) + 1]>>

\* path.file_name() of the path with id p; the names of even ids start with a
\* two-byte char
file_name(p) ==
    (IF p % 2 = 0 THEN <<"e-acute">> ELSE <<"i">>) \o Dec(p) \o <<".", "p", "n", "g">>

NoneName == <<"(", "n", "o", "n", "e", ")">>

\* App::current_filename
current_filename ==
    IF images = <<>> THEN NoneName ELSE file_name(images[index + 1])

\* App::image_info
image_info ==
    IF current_image # <<>>
    THEN Dec(current_image[1].w) \o <<"x">> \o Dec(current_image[1].h)
    ELSE <<>>

\* draw: let counter = ...
counter ==
    IF images = <<>> THEN <<"0", "/", "0">>
    ELSE Dec(index + 1) \o <<"/">> \o Dec(Len(images))

\* zoom_in with max where the code has min
zoom_in_value_max(z) == QMax(QMul(z, ZoomStep), ZoomMax)

zoom_in_value_adds(z) == QMin(QAdd(z, <<1, 4>>), ZoomMax)

zoom_in_value(z) == QMin(QMul(z, ZoomStep), ZoomMax)

zoom_out_value(z) == QMax(QDiv(z, ZoomStep), ZoomMin)

\* the zoom values the model stores: numerator and denominator within MaxMag
Representable(z) == z[1] <= MaxMag /\ z[2] <= MaxMag

zoom_in ==
    /\ ~panicked
    /\ Representable(zoom_in_value(zoom))
    /\ zoom' = zoom_in_value(zoom)
    /\ hist' = H("zoom_in")
    /\ UNCHANGED <<images, index, current_image, error_message, show_help, pan_x, pan_y,
                   panicked, view, kin, kst, out, bar>>

zoom_out ==
    /\ ~panicked
    /\ Representable(zoom_out_value(zoom))
    /\ zoom' = zoom_out_value(zoom)
    /\ hist' = H("zoom_out")
    /\ UNCHANGED <<images, index, current_image, error_message, show_help, pan_x, pan_y,
                   panicked, view, kin, kst, out, bar>>

zoom_reset ==
    /\ ~panicked
    /\ zoom' = ZoomOne
    /\ pan_x' = PanZero
    /\ pan_y' = PanZero
    /\ hist' = H("zoom_reset")
    /\ UNCHANGED <<images, index, current_image, error_message, show_help,
                   panicked, view, kin, kst, out, bar>>

\* the model follows the pan up to MaxPanSteps steps from 0 on each axis
PanBound == <<MaxPanSteps, 20>>

PanWithin(dx, dy) ==
    /\ QLe(QAbs(QAdd(pan_x, dx)), PanBound)
    /\ QLe(QAbs(QAdd(pan_y, dy)), PanBound)

\* pan clamping each axis to [-0.5, 0.5]
pan_clamped(dx, dy) ==
    /\ ~panicked
    /\ pan_x' = QClamp(QAdd(pan_x, dx), <<-1, 2>>, <<1, 2>>)
    /\ pan_y' = QClamp(QAdd(pan_y, dy), <<-1, 2>>, <<1, 2>>)
    /\ hist' = H("pan")
    /\ UNCHANGED <<images, index, current_image, error_message, show_help, zoom,
                   panicked, view, kin, kst, out, bar>>

pan(dx, dy) ==
    /\ ~panicked
    /\ pan_x' = QAdd(pan_x, dx)
    /\ pan_y' = QAdd(pan_y, dy)
    /\ hist' = H("pan")
    /\ UNCHANGED <<images, index, current_image, error_message, show_help, zoom,
                   panicked, view, kin, kst, out, bar>>

\* the four pan keys of main: w, s, a, d
PanKeys == {<<PanZero, <<-1, 20>>>>, <<PanZero, PanStep>>,
            <<<<-1, 20>>, PanZero>>, <<PanStep, PanZero>>}

pan_key == \E k \in PanKeys : PanWithin(k[1], k[2]) /\ pan(k[1], k[2])

toggle_help ==
    /\ ~panicked
    /\ show_help' = ~show_help
    /\ hist' = H("toggle_help")
    /\ UNCHANGED <<images, index, current_image, error_message, zoom, pan_x, pan_y,
                   panicked, view, kin, kst, out, bar>>

\* App::get_view_image on the fields (img, z, px, py): None, or the rectangle of
\* the source image that the returned image holds (img.clone() is the whole image)
WholeImage(d) == [x |-> 0, y |-> 0, width |-> d.w, height |-> d.h]

\* the fast path taken only at exactly zoom 1.0 and pan (0, 0)
NearIdentity_exact(z, px, py) == z = ZoomOne /\ px = PanZero /\ py = PanZero

\* (self.zoom - 1.0).abs() < 0.01 && self.pan_x.abs() < 0.01 && self.pan_y.abs() < 0.01
NearIdentity(z, px, py) ==
    /\ QLt(QAbs(QSub(z, ZoomOne)), Epsilon)
    /\ QLt(QAbs(px), Epsilon)
    /\ QLt(QAbs(py), Epsilon)

\* the view window growing with the zoom
view_size_multiplies(w, z) == Max(AsU32(QMul(QInt(w), z)), 1)

\* view_w / view_h: ((w as f64 / self.zoom) as u32).max(1)
view_size(w, z) == Max(AsU32(QDiv(QInt(w), z)), 1)

\* center_x / center_y: (w as f64 / 2.0 + pan * w as f64).clamp(0.0, w as f64)
view_center(w, p) ==
    QClamp(QAdd(QDiv(QInt(w), QInt(2)), QMul(p, QInt(w))), QInt(0), QInt(w))

\* the origin without the upper clamp .min(w - view)
view_origin_no_upper(w, vw, c) == AsU32(QMax(QSub(c, QDiv(QInt(vw), QInt(2))), QInt(0)))

\* x / y: (center - view as f64 / 2.0).max(0.0).min(w.saturating_sub(view.min(w)) as f64) as u32
view_origin(w, vw, c) ==
    AsU32(QMin(QMax(QSub(c, QDiv(QInt(vw), QInt(2))), QInt(0)),
               QInt(Max(w - Min(vw, w), 0))))

\* the crop size left at the view size
crop_size_unclamped(vw, w, x) == vw

\* crop_w / crop_h: view_w.min(w - x)
crop_size(vw, w, x) == Min(vw, w - x)

crop_rect(d, z, px, py) ==
    LET view_w == view_size(d.w, z)
        view_h == view_size(d.h, z)
        x == view_origin(d.w, view_w, view_center(d.w, px))
        y == view_origin(d.h, view_h, view_center(d.h, py))
        crop_w == crop_size(view_w, d.w, x)
        crop_h == crop_size(view_h, d.h, y)
    IN  IF crop_w = 0 \/ crop_h = 0
        THEN WholeImage(d)
        ELSE [x |-> x, y |-> y, width |-> crop_w, height |-> crop_h]

get_view_image(img, z, px, py) ==
    IF img = <<>> THEN <<>>
    ELSE IF NearIdentity(z, px, py) THEN <<WholeImage(img[1])>>
    ELSE <<crop_rect(img[1], z, px, py)>>

----------------------------------------------------------------------------
(* The viewer: App::new followed by any sequence of the operations *)

NoHist == [op |-> "new", index |-> 0, zoom |-> ZoomOne, pan_x |-> PanZero, pan_y |-> PanZero,
           failed |-> FALSE]

\* main is not running: the operations are called on their own
NoLoop == [pc |-> "none", event |-> "none", events |-> 0, drawn |-> 0]

NoMain == loop = NoLoop /\ frame = <<>>

Alone(A) == A /\ UNCHANGED <<loop, frame>>

Idle == /\ view = <<>>
        /\ kin = <<>>
        /\ kst = <<>>
        /\ out = <<>>
        /\ bar = <<>>
        /\ NoMain

\* main: start_index is a position in images, or 0
StartIndices(n) == IF n = 0 THEN {0} ELSE 0 .. (n - 1)

\* App::new(images, start_index)
Init ==
    /\ \E n \in 0 .. MaxImages :
         /\ images = [i \in 1 .. n |-> i]
         /\ index \in StartIndices(n)
    /\ show_help = FALSE
    /\ zoom = ZoomOne
    /\ pan_x = PanZero
    /\ pan_y = PanZero
    /\ IF images = <<>>
       THEN current_image = <<>> /\ error_message = <<NoImagesMsg>>
       ELSE \E r \in DecodeResults :
              IF r # <<>>
              THEN current_image = r /\ error_message = <<>>
              ELSE current_image = <<>> /\ error_message = <<FailedMsg(images[index + 1])>>
    /\ panicked = FALSE
    /\ hist = NoHist
    /\ Idle

Next ==
    \/ Alone(next)
    \/ Alone(prev)
    \/ Alone(first)
    \/ Alone(last)
    \/ Alone(zoom_in)
    \/ Alone(zoom_out)
    \/ Alone(zoom_reset)
    \/ Alone(pan_key)
    \/ Alone(toggle_help)

Spec == Init /\ [][Next]_vars

----------------------------------------------------------------------------
(* Claims about the viewer, checked under Spec *)

NavOps == {"next", "prev", "first", "last"}

\* C1: in every state reachable from App::new by the viewer's operations,
\* 0.1 <= zoom <= 10.0.
C1_ZoomClamped == QLe(<<1, 10>>, zoom) /\ QLe(zoom, <<10, 1>>)

\* a zoom_in from below 10.0 whose product exceeded 10.0 and was clamped
C1_Witness ==
    /\ hist.op = "zoom_in"
    /\ hist.zoom # <<10, 1>>
    /\ QLt(<<10, 1>>, QMul(hist.zoom, <<5, 4>>))
    /\ zoom = <<10, 1>>

\* C4: on a non-empty collection of n images next yields 0 from n-1 and index+1
\* otherwise, prev yields n-1 from 0 and index-1 otherwise, and next then prev
\* (or prev then next) returns to the index they started from.
C4_WrapAround ==
    [][ images # <<>> =>
          /\ hist' = H("next") =>
               index' = IF index = Len(images) - 1 THEN 0 ELSE index + 1
          /\ hist' = H("prev") =>
               index' = IF index = 0 THEN Len(images) - 1 ELSE index - 1
          /\ (hist.op = "next" /\ hist' = H("prev")) => index' = hist.index
          /\ (hist.op = "prev" /\ hist' = H("next")) => index' = hist.index ]_vars

\* prev has wrapped from index 0 to the last index of a collection of several images
C4_Witness ==
    /\ Len(images) >= 2
    /\ hist.op = "prev"
    /\ hist.index = 0
    /\ index = Len(images) - 1

\* C5: on a non-empty collection with the start index in range, the index stays
\* within 0 .. len-1 under every sequence of operations; first leaves it at 0 and
\* last at len-1.
C5_IndexInRange ==
    images # <<>> =>
        /\ 0 <= index
        /\ index <= Len(images) - 1
        /\ hist.op = "first" => index = 0
        /\ hist.op = "last" => index = Len(images) - 1

\* next has wrapped from the last index of a collection of several images
C5_Witness ==
    /\ Len(images) >= 2
    /\ hist.op = "next"
    /\ hist.index = Len(images) - 1
    /\ index = 0

\* C6: after next, prev, first or last on a non-empty collection the viewport is
\* the identity (zoom 1.0, pan 0, 0), whatever it was before and whether or not
\* the new image decoded.
C6_NavigationResetsViewport ==
    (images # <<>> /\ hist.op \in NavOps) =>
        /\ zoom = <<1, 1>>
        /\ pan_x = <<0, 1>>
        /\ pan_y = <<0, 1>>

\* a navigation from a zoomed and panned viewport whose new image failed to decode
C6_Witness ==
    /\ hist.op \in NavOps
    /\ hist.zoom # <<1, 1>>
    /\ hist.pan_x # <<0, 1>>
    /\ current_image = <<>>
    /\ error_message # <<>>
    /\ images # <<>>
    /\ zoom = <<1, 1>>

----------------------------------------------------------------------------
(* The viewport: get_view_image called on any image, zoom and pan, and on the
   viewport a navigation or a reset leaves *)

ViewZooms == {<<1, 10>>, <<1, 8>>, <<1, 2>>, <<4, 5>>, <<199, 200>>, <<1, 1>>, <<201, 200>>,
              <<5, 4>>, <<3, 2>>, <<25, 16>>, <<2, 1>>, <<3, 1>>, <<4, 1>>, <<5, 1>>,
              <<7, 1>>, <<10, 1>>}

ViewPans == {<<-5, 1>>, <<-1, 2>>, <<-1, 4>>, <<-1, 200>>, <<0, 1>>, <<1, 200>>, <<1, 4>>,
             <<1, 2>>, <<5, 1>>}

ViewImages == {<<[w |-> w, h |-> h]>> : w \in 1 .. MaxDim, h \in 1 .. MaxDim} \cup {<<>>}

InitView ==
    /\ images = [i \in 1 .. MaxImages |-> i]
    /\ index = 0
    /\ current_image \in ViewImages
    /\ error_message = IF current_image = <<>> THEN <<FailedMsg(images[1])>> ELSE <<>>
    /\ show_help = FALSE
    /\ zoom \in ViewZooms
    /\ pan_x \in ViewPans
    /\ pan_y \in ViewPans
    /\ panicked = FALSE
    /\ hist = NoHist
    /\ Idle

\* draw: app.get_view_image()
call_get_view_image ==
    /\ ~panicked
    /\ hist.op # "get_view_image"
    /\ view' = get_view_image(current_image, zoom, pan_x, pan_y)
    /\ hist' = H("get_view_image")
    /\ UNCHANGED <<images, index, current_image, error_message, show_help, zoom, pan_x,
                   pan_y, panicked, kin, kst, out, bar>>

NextView ==
    \/ Alone(call_get_view_image)
    \/ Alone(next)
    \/ Alone(prev)
    \/ Alone(first)
    \/ Alone(last)
    \/ Alone(zoom_reset)

SpecView == InitView /\ [][NextView]_vars

Viewed == hist.op = "get_view_image" /\ view # <<>>

Area(r) == r.width * r.height

\* the rectangle get_view_image returns for the current image and pan at zoom z
RectAt(z) == get_view_image(current_image, z, pan_x, pan_y)[1]

\* C2: for every image of at least 1x1, zoom in [0.1, 10] and pan in [-5, 5]^2 the
\* crop rectangle lies inside the image and is at least 1x1.
C2_CropContained ==
    Viewed =>
        LET r == view[1]
            d == current_image[1]
        IN  /\ 0 <= r.x
            /\ 0 <= r.y
            /\ r.x + r.width <= d.w
            /\ r.y + r.height <= d.h
            /\ r.width >= 1
            /\ r.height >= 1

\* a proper crop, away from the top-left corner, at the largest pan
C2_Witness ==
    /\ Viewed
    /\ pan_x = <<5, 1>>
    /\ view[1].x > 0
    /\ view[1].y > 0
    /\ view[1].width < current_image[1].w
    /\ view[1].width > 1

\* C8 as stated: for fixed image and pan and z1 < z2, the area at z2 is strictly
\* smaller than at z1, or equal only where a side of the view window is at its
\* floor of one pixel.
C8_StrictlyMonotonic ==
    Viewed =>
        \A z2 \in ViewZooms :
            QLt(zoom, z2) =>
                \/ Area(RectAt(z2)) < Area(view[1])
                \/ /\ Area(RectAt(z2)) = Area(view[1])
                   /\ \/ view[1].width = 1
                      \/ view[1].height = 1

\* C8 as amended: for fixed image and pan and z1 < z2, the area at z2 is at most
\* the area at z1.
C8_Monotonic ==
    Viewed =>
        \A z2 \in ViewZooms :
            QLt(zoom, z2) => Area(RectAt(z2)) <= Area(view[1])

\* a larger zoom with a strictly smaller area, and another with the same area
C8_Witness ==
    /\ Viewed
    /\ pan_x # <<0, 1>>
    /\ \E z2 \in ViewZooms : QLt(zoom, z2) /\ Area(RectAt(z2)) < Area(view[1])
    /\ \E z2 \in ViewZooms : QLt(zoom, z2) /\ Area(RectAt(z2)) = Area(view[1])

\* C9: with zoom within 0.01 of 1.0 and both pans within 0.01 of 0,
\* get_view_image returns the whole image, for every image of at least 1x1; so it
\* does on the viewport a navigation or a zoom_reset leaves.
C9_IdentityView ==
    /\ ( /\ Viewed
         /\ QLt(<<99, 100>>, zoom) /\ QLt(zoom, <<101, 100>>)
         /\ QLt(<<-1, 100>>, pan_x) /\ QLt(pan_x, <<1, 100>>)
         /\ QLt(<<-1, 100>>, pan_y) /\ QLt(pan_y, <<1, 100>>) )
       => view[1] = [x |-> 0, y |-> 0,
                     width |-> current_image[1].w, height |-> current_image[1].h]
    /\ (hist.op \in {"next", "prev", "first", "last", "zoom_reset"} /\ current_image # <<>>)
       => get_view_image(current_image, zoom, pan_x, pan_y)
              = <<[x |-> 0, y |-> 0,
                   width |-> current_image[1].w, height |-> current_image[1].h]>>

\* the whole image returned at a zoom and pan near, but not at, the identity
C9_Witness ==
    /\ Viewed
    /\ zoom = <<201, 200>>
    /\ pan_x = <<1, 200>>
    /\ current_image[1].w >= 3
    /\ view[1].width = current_image[1].w
    /\ view[1].height = current_image[1].h

----------------------------------------------------------------------------
(* kitty_display *)

ChunkSize == 4096

\* to_rgba8: four bytes a pixel
BytesPerPixel == 4

\* f=32
FormatRGBA == 32

\* avail_px_w / avail_px_h: cols as u32 * cell_width_px as u32
kitty_avail(cells, cell_px) == cells * cell_px

\* the scale without the cap at 1.0
kitty_scale_uncapped(aw, ah, w, h) ==
    QMin(QDiv(QInt(aw), QInt(w)), QDiv(QInt(ah), QInt(h)))

\* scale: scale_x.min(scale_y).min(1.0)
kitty_scale(aw, ah, w, h) ==
    QMin(QMin(QDiv(QInt(aw), QInt(w)), QDiv(QInt(ah), QInt(h))), <<1, 1>>)

\* the display size rounded to the nearest pixel
kitty_disp_rounds(n, scale) == Max(AsU32(QAdd(QMul(QInt(n), scale), <<1, 2>>)), 1)

\* disp_w / disp_h: ((img_w as f64 * scale) as u32).max(1)
kitty_disp(n, scale) == Max(AsU32(QMul(QInt(n), scale)), 1)

\* img_cols / img_rows: (disp + cell - 1) / cell
kitty_cells(disp, cell_px) == (disp + cell_px - 1) \div cell_px

\* the offset taken as the middle cell of the canvas
kitty_offset_middle(cells, img_cells) == cells \div 2

\* col_offset / row_offset: (cells as u32).saturating_sub(img_cells) / 2
kitty_offset(cells, img_cells) == Max(cells - img_cells, 0) \div 2

\* the length of STANDARD.encode(raw_pixels): padded base64 of n bytes
base64_len(n) == 4 * ((n + 2) \div 3)

\* the number of chunks of b64.as_bytes().chunks(4096)
chunk_count(len) == (len + ChunkSize - 1) \div ChunkSize

\* is_last taken as i == chunks.len()
kitty_more_off_by_one(i, n) == IF i = n THEN 0 ELSE 1

\* more: if i == chunks.len() - 1 { 0 } else { 1 }
kitty_more(i, n) == IF i = n - 1 THEN 0 ELSE 1

\* the control command of chunk i (0-based) of n, over the payload bytes from .. to
kitty_command(i, n, len, dw, dh) ==
    IF i = 0
    THEN [a |-> "T", f |-> FormatRGBA, s |-> dw, v |-> dh, m |-> kitty_more(i, n),
          from |-> 0, to |-> Min(ChunkSize, len)]
    ELSE [a |-> "", f |-> 0, s |-> 0, v |-> 0, m |-> kitty_more(i, n),
          from |-> i * ChunkSize, to |-> Min((i + 1) * ChunkSize, len)]

\* lines 87-104: the canvas, the scale, the display size
kitty_fit ==
    /\ kst.pc = "fit"
    /\ LET scale == kitty_scale(kitty_avail(kin.cols, kin.cell_w),
                                kitty_avail(kin.rows, kin.cell_h), kin.img_w, kin.img_h)
       IN  kst' = [kst EXCEPT !.pc = "place",
                              !.disp_w = kitty_disp(kin.img_w, scale),
                              !.disp_h = kitty_disp(kin.img_h, scale)]
    /\ UNCHANGED <<images, index, current_image, error_message, show_help, zoom, pan_x,
                   pan_y, panicked, hist, view, kin, out, bar>>

\* lines 106-122: the cursor moved to the centering offset, the payload encoded and chunked
kitty_place ==
    /\ kst.pc = "place"
    /\ LET len == base64_len(kst.disp_w * kst.disp_h * BytesPerPixel)
       IN  kst' = [kst EXCEPT
                     !.pc = IF chunk_count(len) = 0 THEN "done" ELSE "send",
                     !.col_offset = kitty_offset(kin.cols, kitty_cells(kst.disp_w, kin.cell_w)),
                     !.row_offset = kitty_offset(kin.rows, kitty_cells(kst.disp_h, kin.cell_h)),
                     !.b64_len = len,
                     !.nchunks = chunk_count(len),
                     !.i = 0]
    /\ UNCHANGED <<images, index, current_image, error_message, show_help, zoom, pan_x,
                   pan_y, panicked, hist, view, kin, out, bar>>

\* lines 124-139: one iteration of the loop over the chunks
kitty_chunk ==
    /\ kst.pc = "send"
    /\ out' = Append(out, kitty_command(kst.i, kst.nchunks, kst.b64_len,
                                        kst.disp_w, kst.disp_h))
    /\ kst' = [kst EXCEPT !.i = kst.i + 1,
                          !.pc = IF kst.i + 1 = kst.nchunks THEN "done" ELSE "send"]
    /\ UNCHANGED <<images, index, current_image, error_message, show_help, zoom, pan_x,
                   pan_y, panicked, hist, view, kin, bar>>

\* images larger than the small canvases, some with a payload of whole chunks
KittyLargeImages == {<<32, 24>>, <<48, 32>>, <<64, 48>>, <<33, 24>>, <<100, 50>>}

KittyImages == ((1 .. MaxKDim) \X (1 .. MaxKDim)) \cup KittyLargeImages

\* cols, rows (the image rows draw passes, 0 on a one-row terminal), cell size
KittyTerminals ==
    ((1 .. MaxCols) \X (0 .. MaxRows) \X (1 .. MaxCell) \X (1 .. MaxCell))
        \cup {<<80, 24, 8, 16>>, <<80, 23, 8, 16>>}

InitKitty ==
    /\ images = <<>>
    /\ index = 0
    /\ current_image = <<>>
    /\ error_message = <<NoImagesMsg>>
    /\ show_help = FALSE
    /\ zoom = ZoomOne
    /\ pan_x = PanZero
    /\ pan_y = PanZero
    /\ panicked = FALSE
    /\ hist = NoHist
    /\ view = <<>>
    /\ bar = <<>>
    /\ NoMain
    /\ \E im \in KittyImages, t \in KittyTerminals :
         kin = [img_w |-> im[1], img_h |-> im[2],
                cols |-> t[1], rows |-> t[2], cell_w |-> t[3], cell_h |-> t[4]]
    /\ kst = [pc |-> "fit", disp_w |-> 0, disp_h |-> 0, col_offset |-> 0, row_offset |-> 0,
              b64_len |-> 0, nchunks |-> 0, i |-> 0]
    /\ out = <<>>

NextKitty ==
    \/ Alone(kitty_fit)
    \/ Alone(kitty_place)
    \/ Alone(kitty_chunk)

SpecKitty == InitKitty /\ [][NextKitty]_vars

\* the length of the encoded payload, from the declared size
PayloadLen == 4 * ((4 * kst.disp_w * kst.disp_h + 2) \div 3)

\* C3: the commands are emitted in chunk order, only the first carries
\* a=T,f=32,s,v, exactly the last carries m=0 and every other m=1; a payload of
\* exactly 4096*k bytes is sent in exactly k commands.
C3_ChunkFraming ==
    /\ \A j \in 1 .. Len(out) :
         /\ out[j].from = (j - 1) * 4096
         /\ out[j].to = Min(j * 4096, PayloadLen)
         /\ out[j].m = IF out[j].to = PayloadLen THEN 0 ELSE 1
         /\ IF j = 1
            THEN out[j].a = "T" /\ out[j].f = 32
                 /\ out[j].s = kst.disp_w /\ out[j].v = kst.disp_h
            ELSE out[j].a = "" /\ out[j].f = 0 /\ out[j].s = 0 /\ out[j].v = 0
    /\ kst.pc = "done" =>
         /\ out # <<>>
         /\ out[Len(out)].to = PayloadLen
         /\ out[Len(out)].m = 0
         /\ \A j \in 1 .. (Len(out) - 1) : out[j].m = 1
         /\ \A k \in 1 .. Len(out) : PayloadLen = 4096 * k => Len(out) = k
         /\ PayloadLen % 4096 = 0 => Len(out) * 4096 = PayloadLen

\* a payload of exactly two chunks (48x32 pixels) sent in two commands
C3_Witness ==
    /\ kst.pc = "done"
    /\ PayloadLen = 2 * 4096
    /\ Len(out) = 2
    /\ out[1].m = 1
    /\ out[2].m = 0

\* C10: with cols, rows and the cell size at least 1, the declared size is at
\* most the image size and at most the canvas cols*cell_w x rows*cell_h, and an
\* image that fits the canvas is sent at its own size.
C10_NoUpscaling ==
    (kst.pc # "fit" /\ kin.rows >= 1) =>
        /\ kst.disp_w <= kin.img_w
        /\ kst.disp_h <= kin.img_h
        /\ kst.disp_w <= kin.cols * kin.cell_w
        /\ kst.disp_h <= kin.rows * kin.cell_h
        /\ (kin.img_w <= kin.cols * kin.cell_w /\ kin.img_h <= kin.rows * kin.cell_h)
             => (kst.disp_w = kin.img_w /\ kst.disp_h = kin.img_h)
        /\ out # <<>> => (out[1].s <= kin.img_w /\ out[1].v <= kin.img_h)

\* the 100x50 image on the 80x24 terminal of 8x16 cells, sent as 100x50
C10_Witness ==
    /\ kst.pc = "done"
    /\ kin = [img_w |-> 100, img_h |-> 50, cols |-> 80, rows |-> 24,
              cell_w |-> 8, cell_h |-> 16]
    /\ out[1].s = 100
    /\ out[1].v = 50

----------------------------------------------------------------------------
(* draw_status_bar *)

\* A &str is the sequence of the UTF-8 byte lengths of its chars (1 for ASCII).
RECURSIVE ByteLen(_)
\* str::len(): the length in bytes
ByteLen(str) == IF str = <<>> THEN 0 ELSE Head(str) + ByteLen(Tail(str))

\* str::is_char_boundary(n)
IsCharBoundary(str, n) ==
    \E k \in 0 .. Len(str) : ByteLen(SubSeq(str, 1, k)) = n

\* the number of chars of &str[..n], n a char boundary
SliceChars(str, n) ==
    CHOOSE k \in 0 .. Len(str) : ByteLen(SubSeq(str, 1, k)) = n

\* draw_status_bar(out, row, cols, left, right): the three writes of lines 207-209;
\* a slice that ends inside a char panics before its write
draw_status_bar ==
    /\ bar.pc = "call"
    /\ ~panicked
    /\ LET left_len == Min(ByteLen(bar.left), bar.cols)
           right_len == Min(ByteLen(bar.right), bar.cols)
           pad == Max(bar.cols - (left_len + right_len), 0)
       IN  IF ~IsCharBoundary(bar.left, left_len)
           THEN /\ panicked' = TRUE
                /\ bar' = [bar EXCEPT !.pc = "done", !.written = 0]
           ELSE IF ~IsCharBoundary(bar.right, right_len)
           THEN /\ panicked' = TRUE
                /\ bar' = [bar EXCEPT !.pc = "done",
                                      !.written = SliceChars(bar.left, left_len) + pad]
           ELSE /\ UNCHANGED panicked
                /\ bar' = [bar EXCEPT !.pc = "done",
                                      !.written = SliceChars(bar.left, left_len) + pad
                                                  + SliceChars(bar.right, right_len)]
    /\ UNCHANGED <<images, index, current_image, error_message, show_help, zoom, pan_x,
                   pan_y, hist, view, kin, kst, out>>

\* strings of up to MaxStr chars of one or two bytes each
BarStrings == UNION {[1 .. n -> {1, 2}] : n \in 0 .. MaxStr}

InitStatus ==
    /\ images = <<>>
    /\ index = 0
    /\ current_image = <<>>
    /\ error_message = <<NoImagesMsg>>
    /\ show_help = FALSE
    /\ zoom = ZoomOne
    /\ pan_x = PanZero
    /\ pan_y = PanZero
    /\ panicked = FALSE
    /\ hist = NoHist
    /\ view = <<>>
    /\ kin = <<>>
    /\ kst = <<>>
    /\ out = <<>>
    /\ NoMain
    /\ \E l \in BarStrings, r \in BarStrings, c \in 0 .. MaxBarCols :
         bar = [pc |-> "call", cols |-> c, left |-> l, right |-> r, written |-> 0]

NextStatus == Alone(draw_status_bar)

SpecStatus == InitStatus /\ [][NextStatus]_vars

\* C7: for every left, right and cols, draw_status_bar writes at most cols
\* characters (left part, padding, right part together) and does not panic.
C7_StatusBarFits ==
    bar.pc = "done" =>
        /\ ~panicked
        /\ bar.written <= bar.cols

----------------------------------------------------------------------------
(* Runs of one zoom key: '+' pressed again and again, or '-' pressed again  *)
(* and again, from the viewport App::new builds.  loop.events counts the    *)
(* presses.                                                                 *)

InitZoom == Init

\* main: KeyCode::Char('+') | KeyCode::Char('=') => app.zoom_in(), in a run
repeat_zoom_in ==
    /\ hist.op \in {"new", "zoom_in"}
    /\ loop.events < MaxZoomRun
    /\ zoom_in
    /\ loop' = [loop EXCEPT !.events = @ + 1]
    /\ UNCHANGED frame

\* main: KeyCode::Char('-') | KeyCode::Char('_') => app.zoom_out(), in a run
repeat_zoom_out ==
    /\ hist.op \in {"new", "zoom_out"}
    /\ loop.events < MaxZoomRun
    /\ zoom_out
    /\ loop' = [loop EXCEPT !.events = @ + 1]
    /\ UNCHANGED frame

NextZoom ==
    \/ repeat_zoom_in
    \/ repeat_zoom_out

SpecZoom == InitZoom /\ [][NextZoom]_vars

\* C11: from the default viewport one zoom_in gives zoom 1.25; no step of a run of
\* zoom_in goes above 10.0 and after 20 of them zoom is exactly 10.0; no step of a
\* run of zoom_out goes below 0.1 and after 20 of them zoom is exactly 0.1.
C11_ZoomSteps ==
    /\ hist.op = "zoom_in" =>
          /\ loop.events = 1 => zoom = <<5, 4>>
          /\ QLe(zoom, <<10, 1>>)
          /\ loop.events >= 20 => zoom = <<10, 1>>
    /\ hist.op = "zoom_out" =>
          /\ QLe(<<1, 10>>, zoom)
          /\ loop.events >= 20 => zoom = <<1, 10>>

C11_Witness == hist.op = "zoom_in" /\ loop.events = 20 /\ zoom = <<10, 1>>

----------------------------------------------------------------------------
(* The empty collection, checked under Spec *)

\* C12: with an empty collection next, prev, first and last leave index, current_image,
\* error_message, zoom, pan and show_help unchanged, and in every reachable state
\* current_image is None, error_message is the 'no images' message, current_filename()
\* is "(none)", image_info() is "" and the status counter is "0/0".
C12_EmptyCollection ==
    /\ [](images = <<>> =>
            /\ current_image = <<>>
            /\ error_message = <<"No images found in directory">>
            /\ current_filename = <<"(", "n", "o", "n", "e", ")">>
            /\ image_info = <<>>
            /\ counter = <<"0", "/", "0">>)
    /\ [][(images = <<>> /\ hist'.op \in NavOps) =>
            UNCHANGED <<images, index, current_image, error_message, zoom, pan_x, pan_y,
                        show_help>>]_vars

C12_Witness ==
    /\ images = <<>>
    /\ hist.op \in NavOps
    /\ zoom # ZoomOne
    /\ pan_x # PanZero
    /\ show_help

----------------------------------------------------------------------------
(* draw: one frame.  The frame is the sequence of what draw writes: screen  *)
(* commands, graphics commands [t |-> "G", c |-> the command] and text.     *)

\* kitty_clear: a=d (delete), d=A (all placements)
kitty_clear == [t |-> "G", c |-> [a |-> "d", d |-> "A"]]

\* kitty_display(out, img, cols, rows, cell_width_px, cell_height_px) on an image of
\* w x h: the cursor move and the chunks
kitty_display(w, h, cols, rows, cell_w, cell_h) ==
    LET scale == kitty_scale(kitty_avail(cols, cell_w), kitty_avail(rows, cell_h), w, h)
        disp_w == kitty_disp(w, scale)
        disp_h == kitty_disp(h, scale)
        len == base64_len(disp_w * disp_h * BytesPerPixel)
        n == chunk_count(len)
    IN  <<[t |-> "MoveTo",
           col |-> kitty_offset(cols, kitty_cells(disp_w, cell_w)),
           row |-> kitty_offset(rows, kitty_cells(disp_h, cell_h))]>>
        \o [j \in 1 .. n |-> [t |-> "G", c |-> kitty_command(j - 1, n, len, disp_w, disp_h)]]

\* draw: let image_rows = rows.saturating_sub(1)
image_rows(rows) == Max(rows - 1, 0)

\* the image or the error text of the frame
draw_body(cols, rows, cell_w, cell_h) ==
    LET v == get_view_image(current_image, zoom, pan_x, pan_y)
    IN  IF v # <<>>
        THEN kitty_display(v[1].width, v[1].height, cols, image_rows(rows), cell_w, cell_h)
        ELSE IF error_message # <<>>
        THEN <<[t |-> "ErrorText", row |-> rows \div 2, msg |-> error_message[1]]>>
        ELSE <<>>

\* the frame with the old placements deleted after the new image is sent
draw_graphics_clear_last(cols, rows, cell_w, cell_h) ==
    <<[t |-> "Clear"]>> \o draw_body(cols, rows, cell_w, cell_h) \o <<kitty_clear>>

\* draw up to the status bar: Clear(All), kitty_clear, the image or the error text
draw_graphics(cols, rows, cell_w, cell_h) ==
    <<[t |-> "Clear"], kitty_clear>> \o draw_body(cols, rows, cell_w, cell_h)

\* format!("{:.0}", x) of x >= 0: the nearest integer, ties to even
Fmt0(q) ==
    LET f == q[1] \div q[2]
        r2 == 2 * (q[1] % q[2])
    IN  IF r2 < q[2] THEN f
        ELSE IF r2 > q[2] THEN f + 1
        ELSE IF f % 2 = 0 THEN f ELSE f + 1

\* draw: let zoom_str = ...
zoom_str ==
    IF QLt(Epsilon, QAbs(QSub(zoom, ZoomOne)))
    THEN <<" ">> \o Dec(Fmt0(QMul(zoom, QInt(100)))) \o <<"%">>
    ELSE <<>>

\* draw: let left = format!(" {} {} {}", filename, info, zoom_str)
status_left == <<" ">> \o current_filename \o <<" ">> \o image_info \o <<" ">> \o zoom_str

\* draw: let right = format!("{} | q:quit ?:help ", counter)
status_right ==
    counter \o <<" ", "|", " ", "q", ":", "q", "u", "i", "t", " ",
                 "?", ":", "h", "e", "l", "p", " ">>

\* char::len_utf8
CharBytes(c) == IF c = "e-acute" THEN 2 ELSE 1

\* a string as the byte widths of its chars
Widths(str) == [k \in 1 .. Len(str) |-> CharBytes(str[k])]

\* draw_status_bar panics: &left[..left_len] or &right[..right_len] ends inside a char
status_bar_panics(left, right, cols) ==
    \/ ~IsCharBoundary(Widths(left), Min(ByteLen(Widths(left)), cols))
    \/ ~IsCharBoundary(Widths(right), Min(ByteLen(Widths(right)), cols))

\* what draw writes after the image: the status bar on the last row, the help overlay
\* when show_help, cursor::Hide
draw_rest(cols, rows) ==
    <<[t |-> "StatusBar", row |-> rows - 1]>>
    \o (IF show_help THEN <<[t |-> "HelpOverlay"]>> ELSE <<>>)
    \o <<[t |-> "Hide"]>>

\* terminal::size() and get_cell_size(): <<cols, rows, cell_w, cell_h>>, rows >= 1
DrawTerminals == {<<80, 24, 8, 16>>, <<2, 2, 1, 1>>, <<3, 1, 2, 2>>}

----------------------------------------------------------------------------
(* main: the initial draw, the event loop, the cleanup.  loop.events counts *)
(* the events read, loop.event is the last one, loop.drawn counts the draws *)
(* since it was read; frame restarts at every event.                        *)

\* a redraw is due after every key press but an unbound one
needs_redraw_always(event) == TRUE

\* let mut needs_redraw = true; ... _ => needs_redraw = false
needs_redraw(event) == event # "press_unbound"

AfterEvent(event, redraw) ==
    /\ loop' = [pc |-> IF redraw THEN "draw" ELSE "poll", event |-> event,
                events |-> loop.events + 1, drawn |-> 0]
    /\ frame' = <<>>

\* event::poll() is true and event::read() returns: the loop is at its top
Polled == loop.pc = "poll" /\ loop.events < MaxEvents /\ ~panicked

\* Event::Key, kind Press, a key bound to the operation A
Press(A) == Polled /\ A /\ AfterEvent("press_bound", needs_redraw("press_bound"))

NoOp == UNCHANGED <<images, index, current_image, error_message, show_help, zoom, pan_x,
                    pan_y, panicked, hist, view, kin, kst, out, bar>>

\* Event::Key, kind Press, any other key
press_unbound ==
    Polled /\ NoOp /\ AfterEvent("press_unbound", needs_redraw("press_unbound"))

\* Event::Key, kind Release or Repeat: continue
key_not_press == Polled /\ NoOp /\ AfterEvent("not_press", FALSE)

\* Event::Resize
resize == Polled /\ NoOp /\ AfterEvent("resize", TRUE)

\* any other event: _ => {}
other_event == Polled /\ NoOp /\ AfterEvent("other", FALSE)

\* q, Esc, Ctrl-C: break
press_quit ==
    /\ Polled
    /\ NoOp
    /\ loop' = [pc |-> "cleanup", event |-> "quit", events |-> loop.events + 1, drawn |-> 0]
    /\ frame' = <<>>

\* draw(&mut out, &app); a panic in draw_status_bar ends the process
draw ==
    /\ loop.pc = "draw"
    /\ ~panicked
    /\ \E t \in DrawTerminals :
         IF status_bar_panics(status_left, status_right, t[1])
         THEN /\ panicked' = TRUE
              /\ frame' = frame \o draw_graphics(t[1], t[2], t[3], t[4])
              /\ loop' = [loop EXCEPT !.pc = "panicked"]
         ELSE /\ UNCHANGED panicked
              /\ frame' = frame \o draw_graphics(t[1], t[2], t[3], t[4])
                                \o draw_rest(t[1], t[2])
              /\ loop' = [loop EXCEPT !.pc = "poll", !.drawn = @ + 1]
    /\ UNCHANGED <<images, index, current_image, error_message, show_help, zoom, pan_x,
                   pan_y, hist, view, kin, kst, out, bar>>

\* after the loop: kitty_clear, cursor::Show, LeaveAlternateScreen, disable_raw_mode
cleanup ==
    /\ loop.pc = "cleanup"
    /\ loop' = [loop EXCEPT !.pc = "exit"]
    /\ frame' = frame \o <<kitty_clear, [t |-> "Show"], [t |-> "LeaveAlternateScreen"],
                            [t |-> "RawModeOff"]>>
    /\ NoOp

\* images decoded at start: those of DecodeResults and one of two chunks
LoopDecodeResults == DecodeResults \cup {<<[w |-> 48, h |-> 32]>>}

\* App::new, then main is about to make the initial draw
InitLoop ==
    /\ \E n \in 0 .. MaxImages :
         /\ images = [i \in 1 .. n |-> i]
         /\ index \in StartIndices(n)
    /\ show_help = FALSE
    /\ zoom = ZoomOne
    /\ pan_x = PanZero
    /\ pan_y = PanZero
    /\ IF images = <<>>
       THEN current_image = <<>> /\ error_message = <<NoImagesMsg>>
       ELSE \E r \in LoopDecodeResults :
              IF r # <<>>
              THEN current_image = r /\ error_message = <<>>
              ELSE current_image = <<>> /\ error_message = <<FailedMsg(images[index + 1])>>
    /\ panicked = FALSE
    /\ hist = NoHist
    /\ view = <<>>
    /\ kin = <<>>
    /\ kst = <<>>
    /\ out = <<>>
    /\ bar = <<>>
    /\ loop = [pc |-> "draw", event |-> "start", events |-> 0, drawn |-> 0]
    /\ frame = <<>>

NextLoop ==
    \/ Press(next)
    \/ Press(prev)
    \/ Press(first)
    \/ Press(last)
    \/ Press(zoom_in)
    \/ Press(zoom_out)
    \/ Press(zoom_reset)
    \/ Press(pan_key)
    \/ Press(toggle_help)
    \/ press_unbound
    \/ key_not_press
    \/ resize
    \/ other_event
    \/ press_quit
    \/ draw
    \/ cleanup

SpecLoop == InitLoop /\ [][NextLoop]_vars

\* the graphics commands of the frame, in order
Graphics == SelectSeq(frame, LAMBDA e : e.t = "G")

\* draw has produced a frame since the last event (whole, or cut by a panic)
Drawn == loop.drawn >= 1 \/ loop.pc = "panicked"

\* C13: in every frame draw produces, the delete-all command (a=d,d=A) is emitted
\* exactly once and comes before the a=T command and every continuation chunk.
C13_ClearBeforeRedraw ==
    Drawn =>
        /\ Len(Graphics) >= 1
        /\ Graphics[1].c.a = "d"
        /\ Graphics[1].c.d = "A"
        /\ \A j \in 2 .. Len(Graphics) : Graphics[j].c.a \in {"T", ""}

C13_Witness ==
    /\ loop.pc = "poll"
    /\ loop.drawn = 1
    /\ Len(Graphics) >= 3
    /\ Graphics[2].c.a = "T"
    /\ Graphics[3].c.a = ""

----------------------------------------------------------------------------
(* Decode failures, checked under Spec *)

\* the index a navigation operation selects among n > 0 images
Target(op, i, n) ==
    CASE op = "next" -> IF i + 1 = n THEN 0 ELSE i + 1
      [] op = "prev" -> IF i = 0 THEN n - 1 ELSE i - 1
      [] op = "first" -> 0
      [] op = "last" -> n - 1

\* C14: after every load exactly one of current_image and error_message is set; a
\* decode failure sets the error, naming the file, and leaves current_image None;
\* from such a state next, prev, first and last still move index and reload, and
\* the error is cleared when the newly selected file decodes.
C14_DecodeFailureRecovered ==
    /\ []((current_image # <<>>) <=> (error_message = <<>>))
    /\ []((images # <<>> /\ error_message # <<>>) =>
            /\ current_image = <<>>
            /\ error_message = <<FailedMsg(images[index + 1])>>)
    /\ [][(images # <<>> /\ error_message # <<>> /\ hist'.op \in NavOps) =>
            /\ index' = Target(hist'.op, index, Len(images))
            /\ \/ current_image' # <<>> /\ error_message' = <<>>
               \/ current_image' = <<>> /\ error_message' = <<FailedMsg(images[index' + 1])>>]_vars

C14_Witness ==
    /\ hist.op \in NavOps
    /\ hist.failed
    /\ hist.index # index
    /\ current_image # <<>>
    /\ error_message = <<>>

----------------------------------------------------------------------------
(* The display size, checked under SpecKitty *)

\* n / d truncated and rounded to nearest (halves up), n >= 0, d > 0
TruncDiv(n, d) == n \div d

RoundDiv(n, d) == (2 * n + d) \div (2 * d)

Fitted == kst.pc # "fit"

CanvasW == kin.cols * kin.cell_w

CanvasH == kin.rows * kin.cell_h

\* C15 as stated: with scale = min(canvas_w/img_w, canvas_h/img_h, 1.0),
\* disp_w = round(img_w*scale) and disp_h = round(img_h*scale), each raised to at
\* least 1.
C15_DisplayRounded ==
    Fitted =>
        /\ kst.disp_w = Max(Min(Min(CanvasW, kin.img_w),
                                RoundDiv(kin.img_w * CanvasH, kin.img_h)), 1)
        /\ kst.disp_h = Max(Min(Min(CanvasH, kin.img_h),
                                RoundDiv(kin.img_h * CanvasW, kin.img_w)), 1)

\* C15, amended: with scale = min(canvas_w/img_w, canvas_h/img_h, 1.0), disp_w and
\* disp_h are img_w*scale and img_h*scale truncated toward zero, each raised to at
\* least 1.
C15_DisplayTruncated ==
    Fitted =>
        /\ kst.disp_w = Max(Min(Min(CanvasW, kin.img_w),
                                TruncDiv(kin.img_w * CanvasH, kin.img_h)), 1)
        /\ kst.disp_h = Max(Min(Min(CanvasH, kin.img_h),
                                TruncDiv(kin.img_h * CanvasW, kin.img_w)), 1)

\* a fitted image whose exact height has a fraction of one half or more
C15_Witness ==
    /\ Fitted
    /\ kst.disp_h >= 1
    /\ kst.disp_h = TruncDiv(kin.img_h * CanvasW, kin.img_w)
    /\ kst.disp_h < RoundDiv(kin.img_h * CanvasW, kin.img_w)
    /\ kst.disp_h < Min(CanvasH, kin.img_h)

----------------------------------------------------------------------------
(* The event loop, checked under SpecLoop *)

AppFields == <<images, index, current_image, error_message, show_help, zoom, pan_x, pan_y>>

BoundOps == NavOps \cup {"zoom_in", "zoom_out", "zoom_reset", "pan", "toggle_help"}

\* the events after which the loop redraws
RedrawEvents == {"start", "press_bound", "resize"}

----------------------------------------------------------------------------
(* The viewport and help operations after a long pan: a run of one pan key   *)
(* with help toggles in between, then the other operations.  loop.event is   *)
(* the key of the run and loop.events its length; after zoom_in or zoom_out  *)
(* (loop.pc = "zoomed") the run is over.                                     *)

\* main: the arms of w, s, a, d
PanDelta(key) ==
    CASE key = "w" -> <<PanZero, <<-1, 20>>>>
      [] key = "s" -> <<PanZero, PanStep>>
      [] key = "a" -> <<<<-1, 20>>, PanZero>>
      [] key = "d" -> <<PanStep, PanZero>>

InitFrame == Init

run_pan ==
    /\ loop.pc = "none"
    /\ loop.events < MaxPanRun
    /\ \E key \in {"w", "s", "a", "d"} :
         /\ loop.event \in {"none", key}
         /\ pan(PanDelta(key)[1], PanDelta(key)[2])
         /\ loop' = [loop EXCEPT !.event = key, !.events = @ + 1]
    /\ UNCHANGED frame

run_zoom(A) ==
    /\ loop.pc = "none"
    /\ A
    /\ loop' = [loop EXCEPT !.pc = "zoomed"]
    /\ UNCHANGED frame

run_end(A) ==
    /\ A
    /\ loop' = [loop EXCEPT !.pc = "zoomed"]
    /\ UNCHANGED frame

NextFrame ==
    \/ run_pan
    \/ Alone(toggle_help)
    \/ run_zoom(zoom_in)
    \/ run_zoom(zoom_out)
    \/ run_end(zoom_reset)
    \/ run_end(next)
    \/ run_end(prev)
    \/ run_end(first)
    \/ run_end(last)

SpecFrame == InitFrame /\ [][NextFrame]_vars

\* C17: zoom_in, zoom_out, zoom_reset and pan leave index, images, current_image,
\* error_message and show_help unchanged; zoom_in and zoom_out leave the pan unchanged;
\* pan adds (dx, dy) to (pan_x, pan_y) with no clamp and leaves zoom unchanged;
\* zoom_reset sets zoom to 1.0 and the pan to (0, 0); the help toggle flips show_help
\* and changes nothing else, so two toggles restore the state; navigation keeps
\* show_help.
C17_ViewportFrame ==
    [][/\ hist'.op \in {"zoom_in", "zoom_out", "zoom_reset", "pan"} =>
            UNCHANGED <<index, images, current_image, error_message, show_help>>
       /\ hist'.op \in {"zoom_in", "zoom_out"} => UNCHANGED <<pan_x, pan_y>>
       /\ hist'.op = "pan" =>
            /\ UNCHANGED zoom
            /\ \E key \in {"w", "s", "a", "d"} :
                 /\ pan_x' = QAdd(pan_x, PanDelta(key)[1])
                 /\ pan_y' = QAdd(pan_y, PanDelta(key)[2])
       /\ hist'.op = "zoom_reset" =>
            zoom' = <<1, 1>> /\ pan_x' = <<0, 1>> /\ pan_y' = <<0, 1>>
       /\ hist'.op = "toggle_help" =>
            /\ show_help' = ~show_help
            /\ UNCHANGED <<index, images, current_image, error_message, zoom, pan_x, pan_y>>
       /\ (hist'.op = "toggle_help" /\ hist.op = "toggle_help") =>
            /\ index' = hist.index
            /\ zoom' = hist.zoom
            /\ pan_x' = hist.pan_x
            /\ pan_y' = hist.pan_y
       /\ hist'.op \in NavOps => UNCHANGED show_help]_vars

C17_Witness ==
    /\ hist.op = "zoom_in"
    /\ hist.pan_x = <<11, 20>>
    /\ pan_x = <<11, 20>>
    /\ zoom = <<5, 4>>
    /\ show_help

----------------------------------------------------------------------------
(* Pan saturation, checked under SpecView *)

\* pans at and beyond the half image
SaturatedPans == {<<1, 2>>, <<11, 20>>, <<3, 5>>, <<1, 1>>, <<5, 1>>}

Neg(q) == <<-q[1], q[2]>>

\* the window side at zoom z > 1 over a side of n pixels
WindowSide(n, z) == Max((n * z[2]) \div z[1], 1)

\* C18: for a fixed image and a fixed zoom > 1 the crop rectangle is the same for every
\* pan_x >= 0.5, with the window flush with the right edge (x + crop_w = width), and
\* the same for every pan_x <= -0.5, with x = 0; likewise for pan_y.
C18_PanSaturation ==
    (Viewed /\ QLt(<<1, 1>>, zoom)) =>
        LET r == view[1]
            d == current_image[1]
        IN  /\ QLe(<<1, 2>>, pan_x) =>
                  /\ r.width = WindowSide(d.w, zoom)
                  /\ r.x + r.width = d.w
                  /\ \A p \in SaturatedPans :
                        get_view_image(current_image, zoom, p, pan_y) = view
            /\ QLe(pan_x, <<-1, 2>>) =>
                  /\ r.width = WindowSide(d.w, zoom)
                  /\ r.x = 0
                  /\ \A p \in SaturatedPans :
                        get_view_image(current_image, zoom, Neg(p), pan_y) = view
            /\ QLe(<<1, 2>>, pan_y) =>
                  /\ r.height = WindowSide(d.h, zoom)
                  /\ r.y + r.height = d.h
                  /\ \A p \in SaturatedPans :
                        get_view_image(current_image, zoom, pan_x, p) = view
            /\ QLe(pan_y, <<-1, 2>>) =>
                  /\ r.height = WindowSide(d.h, zoom)
                  /\ r.y = 0
                  /\ \A p \in SaturatedPans :
                        get_view_image(current_image, zoom, pan_x, Neg(p)) = view

C18_Witness ==
    /\ Viewed
    /\ zoom = <<5, 4>>
    /\ pan_x = <<1, 2>>
    /\ pan_y = <<-5, 1>>
    /\ current_image = <<[w |-> 5, h |-> 5]>>
    /\ view = <<[x |-> 1, y |-> 0, width |-> 4, height |-> 4]>>

----------------------------------------------------------------------------
(* Placement, checked under SpecKitty.  kin.rows is the image area draw      *)
(* passes: the rows of the terminal less the status row.                     *)

Placed == kst.pc \in {"send", "done"}

\* the least number of cells of cell_px pixels that hold px pixels
CellsFor(px, cell_px) == CHOOSE c \in 0 .. px : c * cell_px >= px /\ (c - 1) * cell_px < px

\* C19: for every terminal of cols >= 1, rows >= 2 and cells of at least 1x1 pixels,
\* col_offset + img_cols <= cols and row_offset + img_rows <= rows - 1, so the image
\* never covers the status row, and the left and right margins, and the top and
\* bottom margins, differ by at most one cell.
C19_PlacementInside ==
    (Placed /\ kin.cols >= 1 /\ kin.cell_w >= 1 /\ kin.cell_h >= 1) =>
        \A rows \in 2 .. (kin.rows + 2) :
            image_rows(rows) = kin.rows =>
                LET img_cols == CellsFor(kst.disp_w, kin.cell_w)
                    img_rows == CellsFor(kst.disp_h, kin.cell_h)
                    right == kin.cols - (kst.col_offset + img_cols)
                    bottom == (rows - 1) - (kst.row_offset + img_rows)
                IN  /\ kst.col_offset + img_cols <= kin.cols
                    /\ kst.row_offset + img_rows <= rows - 1
                    /\ right - kst.col_offset \in {0, 1}
                    /\ bottom - kst.row_offset \in {0, 1}

C19_Witness ==
    /\ kst.pc = "done"
    /\ kin.rows = 23
    /\ kin.cols = 80
    /\ kst.col_offset = 37
    /\ kin.cols - (kst.col_offset + CellsFor(kst.disp_w, kin.cell_w)) = 38
    /\ kst.row_offset >= 1

----------------------------------------------------------------------------
(* Quit, checked under SpecLoop *)

\* C20: a press of q, Esc or Ctrl-C ends the event loop without changing the viewer
\* state and without another frame; after it the only graphics command written is one
\* delete-all, followed by the terminal's restoration (cursor shown, alternate screen
\* left, raw mode off); no other key or event ends the loop.
C20_Quit ==
    /\ [][(loop'.event = "quit" /\ loop'.events # loop.events) =>
            /\ UNCHANGED AppFields
            /\ loop'.pc = "cleanup"
            /\ frame' = <<>>]_vars
    /\ [](loop.pc = "exit" =>
            /\ Graphics = <<kitty_clear>>
            /\ [j \in 1 .. Len(frame) |-> frame[j].t]
                   = <<"G", "Show", "LeaveAlternateScreen", "RawModeOff">>)
    /\ []((loop.events >= 1 /\ loop.pc \notin {"poll", "draw"}) => loop.event = "quit")

====
